---- MODULE Spec2Model ----
(***************************************************************************)
(* Model of the ChatGPT cookie checker bot: parse_cookies and the          *)
(* process_file task of working.py (warm-up variant) and of bot.py         *)
(* (single-request variant), and the dispatch done by handle_document.     *)
(*                                                                         *)
(* Text is a sequence of characters; a character is a one-element string,  *)
(* with "TAB", "NL" and "SP" standing for '\t', '\n' and ' '.              *)
(***************************************************************************)
EXTENDS Integers, Sequences, FiniteSets, TLC

VARIABLES variant, jobs, replies, call, ret

vars == <<variant, jobs, replies, call, ret>>

(***************************************************************************)
(* Bounds                                                                  *)
(***************************************************************************)
MaxFiles == 2
MaxPairs == 2

(***************************************************************************)
(* Python str methods, as parse_cookies uses them                          *)
(***************************************************************************)
IsSpace(c) == c \in {"SP", "TAB", "NL"}

RECURSIVE LStrip(_)
LStrip(s) ==
  IF s = <<>> THEN <<>>
  ELSE IF IsSpace(Head(s)) THEN LStrip(Tail(s)) ELSE s

RECURSIVE RStrip(_)
RStrip(s) ==
  IF s = <<>> THEN <<>>
  ELSE IF IsSpace(s[Len(s)]) THEN RStrip(SubSeq(s, 1, Len(s) - 1)) ELSE s

Strip(s) == RStrip(LStrip(s))

StartsWith(s, p) == Len(s) >= Len(p) /\ SubSeq(s, 1, Len(p)) = p

Contains(s, c) == \E i \in 1..Len(s) : s[i] = c

\* index of the first occurrence of c in s, 0 when there is none
RECURSIVE IndexFrom(_, _, _)
IndexFrom(s, c, i) ==
  IF i > Len(s) THEN 0
  ELSE IF s[i] = c THEN i ELSE IndexFrom(s, c, i + 1)

IndexOf(s, c) == IndexFrom(s, c, 1)

\* s.split(c): always at least one part
RECURSIVE Split(_, _)
Split(s, c) ==
  LET i == IndexOf(s, c) IN
  IF i = 0 THEN <<s>>
  ELSE <<SubSeq(s, 1, i - 1)>> \o Split(SubSeq(s, i + 1, Len(s)), c)

\* s.split(c, 1): at most two parts
Split1(s, c) ==
  LET i == IndexOf(s, c) IN
  IF i = 0 THEN <<s>>
  ELSE <<SubSeq(s, 1, i - 1), SubSeq(s, i + 1, Len(s))>>

\* s.splitlines(): no empty last line after a final line break
RECURSIVE SplitLines(_)
SplitLines(s) ==
  LET i == IndexOf(s, "NL") IN
  IF s = <<>> THEN <<>>
  ELSE IF i = 0 THEN <<s>>
  ELSE <<SubSeq(s, 1, i - 1)>> \o SplitLines(SubSeq(s, i + 1, Len(s)))

\* d[k] = v on a dict
DictSet(d, k, v) == [x \in DOMAIN d \cup {k} |-> IF x = k THEN v ELSE d[x]]

EmptyDict == [x \in {} |-> <<>>]

HttpOnlyPrefix == <<"#", "H", "t", "t", "p", "O", "n", "l", "y", "_">>

(***************************************************************************)
(* File contents.  A content is either text that json.loads does not turn  *)
(* into a list, or the text of a JSON array, kept as the list json.loads   *)
(* returns.  An element of the list is an object (its fields) or a number. *)
(***************************************************************************)
TextContent(t) == [kind |-> "text", text |-> t, arr |-> <<>>]

JsonContent(a) == [kind |-> "json", text |-> <<"[">>, arr |-> a]

JsonObject(f) == [type |-> "object", fields |-> f]

JsonNumber == [type |-> "number", fields |-> EmptyDict]

\* a string element of the list, with its characters
JsonString(t) == [type |-> "string", fields |-> [text |-> t]]

\* sub in s on two strings
IsInfix(sub, s) ==
  \E i \in 1..(Len(s) + 1) :
    i + Len(sub) - 1 <= Len(s) /\ SubSeq(s, i, i + Len(sub) - 1) = sub

\* json.loads(file_content): the list, or no list (JSONDecodeError, or a
\* value that is not a list)
JsonLoads(content) ==
  IF content.kind = "json" THEN [isList |-> TRUE, arr |-> content.arr]
  ELSE [isList |-> FALSE, arr |-> <<>>]

(***************************************************************************)
(* parse_cookies(file_content, file_type)                                  *)
(***************************************************************************)
\* the dict comprehension over the loaded list: 'name' in c raises
\* TypeError on an element that is no container and is a substring test on
\* a string (c['name'] then raises); later names overwrite
RECURSIVE JsonComprehension(_, _)
JsonComprehension(arr, acc) ==
  IF arr = <<>> THEN [raised |-> FALSE, cookies |-> acc]
  ELSE LET c == Head(arr) IN
       IF c.type = "string"
       THEN IF IsInfix(<<"n", "a", "m", "e">>, c.fields.text)
               /\ IsInfix(<<"v", "a", "l", "u", "e">>, c.fields.text)
            THEN [raised |-> TRUE, cookies |-> EmptyDict]
            ELSE JsonComprehension(Tail(arr), acc)
       ELSE IF c.type # "object" THEN [raised |-> TRUE, cookies |-> EmptyDict]
       ELSE IF "name" \in DOMAIN c.fields /\ "value" \in DOMAIN c.fields
            THEN JsonComprehension(Tail(arr),
                                   DictSet(acc, c.fields["name"], c.fields["value"]))
            ELSE JsonComprehension(Tail(arr), acc)

\* one line of the tab-separated loop
NetscapeLine(raw, cookies) ==
  LET line == Strip(raw)
      body == IF StartsWith(line, HttpOnlyPrefix)
              THEN SubSeq(line, Len(HttpOnlyPrefix) + 1, Len(line))
              ELSE line
      parts == Split(body, "TAB")
  IN IF line = <<>> \/ (StartsWith(line, <<"#">>) /\ ~StartsWith(line, HttpOnlyPrefix))
     THEN cookies
     ELSE IF Len(parts) >= 7 THEN DictSet(cookies, parts[6], parts[7])
          ELSE cookies

RECURSIVE NetscapeLoop(_, _)
NetscapeLoop(lines, cookies) ==
  IF lines = <<>> THEN cookies
  ELSE NetscapeLoop(Tail(lines), NetscapeLine(Head(lines), cookies))

\* the "k=v; k2=v2" loop
RECURSIVE PairLoop(_, _)
PairLoop(pairs, cookies) ==
  IF pairs = <<>> THEN cookies
  ELSE LET pair == Head(pairs)
           kv == Split1(Strip(pair), "=")
       IN IF Contains(pair, "=")
          THEN PairLoop(Tail(pairs), DictSet(cookies, kv[1], kv[2]))
          ELSE PairLoop(Tail(pairs), cookies)

KeyValueFallback(text, cookies) ==
  IF cookies = EmptyDict /\ Strip(text) # <<>>
  THEN PairLoop(Split(text, ";"), cookies)
  ELSE cookies

parse_cookies(content, ftype) ==
  LET loaded == JsonLoads(content)
      tryJson == ftype = "json" \/ StartsWith(LStrip(content.text), <<"[">>)
  IN IF tryJson /\ loaded.isList
     THEN JsonComprehension(loaded.arr, EmptyDict)
     ELSE [raised |-> FALSE,
           cookies |-> KeyValueFallback(content.text,
                          NetscapeLoop(SplitLines(content.text), EmptyDict))]

(***************************************************************************)
(* The three encodings of a list of name/value pairs                       *)
(***************************************************************************)
Names == {<<"a">>, <<"b">>}

Values == {<<>>, <<"x">>, <<"y">>}

PairLists == UNION {[1..n -> Names \X Values] : n \in 0..MaxPairs}

Encodings == {"json", "netscape", "semicolon"}

FileTypes == {"txt", "json"}

RECURSIVE Join(_, _)
Join(parts, sep) ==
  IF parts = <<>> THEN <<>>
  ELSE IF Len(parts) = 1 THEN parts[1]
  ELSE parts[1] \o sep \o Join(Tail(parts), sep)

EncodeJson(pairs) ==
  JsonContent([i \in 1..Len(pairs) |->
     JsonObject([k \in {"name", "value"} |->
        IF k = "name" THEN pairs[i][1] ELSE pairs[i][2]])])

EncodeNetscape(pairs) ==
  TextContent(Join([i \in 1..Len(pairs) |->
     Join(<< <<"d">>, <<"T">>, <<"/">>, <<"T">>, <<"0">>, pairs[i][1], pairs[i][2] >>,
          <<"TAB">>)], <<"NL">>))

EncodeSemicolon(pairs) ==
  TextContent(Join([i \in 1..Len(pairs) |-> pairs[i][1] \o <<"=">> \o pairs[i][2]],
                   <<";", "SP">>))

Encode(enc, pairs) ==
  CASE enc = "json" -> EncodeJson(pairs)
    [] enc = "netscape" -> EncodeNetscape(pairs)
    [] enc = "semicolon" -> EncodeSemicolon(pairs)

\* the name/value pairs of the source, the last occurrence of a name winning
RECURSIVE LastWins(_, _)
LastWins(pairs, acc) ==
  IF pairs = <<>> THEN acc
  ELSE LastWins(Tail(pairs), DictSet(acc, Head(pairs)[1], Head(pairs)[2]))

(***************************************************************************)
(* The probe response.  The body is kept as what the patterns of           *)
(* process_file read in it: whether a streamController.enqueue("...") call *)
(* occurs, how the quotes of its first literal are escaped, the markers    *)
(* the literal carries in order, and the expiry digits that follow a       *)
(* subscriptionExpiresAt marker outside that literal.                      *)
(***************************************************************************)
None == <<"None">>

NA == <<"N", "/", "A">>

Marker(k, v) == [key |-> k, val |-> v]

Html(enq, esc, markers, rest) ==
  [enqueue |-> enq, escape |-> esc, payload |-> markers, restExpiry |-> rest]

Response(st, body) == [status |-> st, html |-> body]

\* m = re.search(r'streamController\.enqueue\("(.+?)"\)', html, re.DOTALL),
\* unicode_escape decoding with the raw literal as fallback, then
\* replace('\\"', '"'): the markers readable in js_payload
JsPayloadWorking(html) ==
  IF html.enqueue THEN html.payload ELSE <<>>

\* bot.py decodes but does not replace: markers are readable only when the
\* decoding succeeded and left no escaped quote
JsPayloadBot(html) ==
  IF html.enqueue /\ html.escape = "single" THEN html.payload ELSE <<>>

\* re.search(r'"<key>"\s*,\s*...', js_payload): the first marker of the key
RECURSIVE Search(_, _)
Search(payload, k) ==
  IF payload = <<>> THEN None
  ELSE IF Head(payload).key = k THEN Head(payload).val
  ELSE Search(Tail(payload), k)

LoggedIn == <<"l", "o", "g", "g", "e", "d", "_", "i", "n">>

LoggedOut == <<"l", "o", "g", "g", "e", "d", "_", "o", "u", "t">>

\* '"authStatus","logged_in"' in js_payload
HasAuthStatus(payload, v) ==
  \E i \in 1..Len(payload) : payload[i].key = "authStatus" /\ payload[i].val = v

\* valid = '"authStatus","logged_in"' in js_payload (working.py line 251; the
\* if/elif of bot.py lines 194-199 computes the same)
IsValid(payload) == HasAuthStatus(payload, LoggedIn)

Upper(c) ==
  CASE c = "p" -> "P" [] c = "f" -> "F" [] c = "t" -> "T"
    [] c = "r" -> "R" [] c = "u" -> "U" [] c = "e" -> "E"
    [] c = "a" -> "A" [] c = "l" -> "L" [] c = "s" -> "S"
    [] c = "m" -> "M" [] c = "d" -> "D"
    [] OTHER -> c

Lower(c) ==
  CASE c = "P" -> "p" [] c = "F" -> "f" [] c = "T" -> "t" [] c = "L" -> "l"
    [] c = "U" -> "u" [] c = "S" -> "s"
    [] OTHER -> c

\* str.capitalize() (and str.title() on a single word)
Capitalize(s) ==
  [i \in 1..Len(s) |-> IF i = 1 THEN Upper(s[i]) ELSE Lower(s[i])]

Digit(c) ==
  CASE c = "0" -> 0 [] c = "1" -> 1 [] c = "2" -> 2 [] c = "3" -> 3 [] c = "4" -> 4
    [] c = "5" -> 5 [] c = "6" -> 6 [] c = "7" -> 7 [] c = "8" -> 8 [] c = "9" -> 9

RECURSIVE StripZeros(_)
StripZeros(ds) ==
  IF Len(ds) > 1 /\ Head(ds) = "0" THEN StripZeros(Tail(ds)) ELSE ds

\* int(digits) // 86400 by long division
RECURSIVE DaysOf(_, _, _)
DaysOf(ds, rem, q) ==
  IF ds = <<>> THEN q
  ELSE LET r == rem * 10 + Digit(Head(ds))
       IN DaysOf(Tail(ds), r % 86400, q * 10 + (r \div 86400))

\* the calendar date of a day count since 1970-01-01
CivilFromDays(days) ==
  LET z == days + 719468
      era == z \div 146097
      doe == z - era * 146097
      yoe == (doe - (doe \div 1460) + (doe \div 36524) - (doe \div 146096)) \div 365
      doy == doe - (365 * yoe + (yoe \div 4) - (yoe \div 100))
      mp == (5 * doy + 2) \div 153
      d == doy - ((153 * mp + 2) \div 5) + 1
      m == IF mp < 10 THEN mp + 3 ELSE mp - 9
      y == yoe + era * 400 + (IF m <= 2 THEN 1 ELSE 0)
  IN [year |-> y, month |-> m, day |-> d]

DigitChar(n) == <<"0", "1", "2", "3", "4", "5", "6", "7", "8", "9">>[n + 1]

RECURSIVE Decimal(_)
Decimal(n) ==
  IF n < 10 THEN <<DigitChar(n)>> ELSE Decimal(n \div 10) \o <<DigitChar(n % 10)>>

MonthName(m) ==
  <<"January", "February", "March", "April", "May", "June", "July", "August",
    "September", "October", "November", "December">>[m]

\* dt.strftime("%B %d, %Y")
Strftime(date) ==
  <<MonthName(date.month), "SP">>
    \o (IF date.day < 10 THEN <<"0">> ELSE <<>>) \o Decimal(date.day)
    \o <<",", "SP">> \o Decimal(date.year)

\* ts = int(m_exp.group(1)); dt = datetime.fromtimestamp(ts, tz=timezone.utc);
\* expires = dt.strftime("%B %d, %Y").  fromtimestamp raises past year 9999.
FromTimestamp(digits) ==
  LET ds == StripZeros(digits)
      date == CivilFromDays(DaysOf(ds, 0, 0))
  IN IF Len(ds) > 12 THEN [raised |-> TRUE, expires |-> NA]
     ELSE IF date.year > 9999 THEN [raised |-> TRUE, expires |-> NA]
     ELSE [raised |-> FALSE, expires |-> Strftime(date)]

\* "Extract account info": email, plan, expires, mfa
ExtractEmail(payload) ==
  LET m_email == Search(payload, "email")
      m_name == Search(payload, "name")
  IN IF m_email # None /\ Contains(m_email, "@") THEN m_email
     ELSE IF m_name # None THEN m_name ELSE NA

ExtractPlan(payload) ==
  LET m_plan == IF Search(payload, "planType") # None
                THEN Search(payload, "planType")
                ELSE Search(payload, "subscriptionPlan")
  IN IF m_plan # None THEN Capitalize(m_plan) ELSE NA

ExtractExpires(payload, html) ==
  LET m_exp == IF Search(payload, "subscriptionExpiresAt") # None
               THEN Search(payload, "subscriptionExpiresAt")
               ELSE html.restExpiry
  IN IF m_exp # None THEN FromTimestamp(m_exp)
     ELSE [raised |-> FALSE, expires |-> NA]

\* faulty variant of ExtractMfa: a missing marker leaves the attribute out
ExtractMfaOmitted(payload) ==
  LET m_mfa == Search(payload, "mfa")
  IN IF m_mfa # None THEN Capitalize(m_mfa) ELSE <<>>

ExtractMfa(payload) ==
  LET m_mfa == Search(payload, "mfa")
  IN IF m_mfa # None THEN Capitalize(m_mfa) ELSE NA

NoAttrs == [email |-> NA, plan |-> NA, expires |-> NA, mfa |-> NA]

ExtractAccountInfo(payload, html) ==
  LET exp == ExtractExpires(payload, html)
  IN [raised |-> exp.raised,
      attrs |-> [email |-> ExtractEmail(payload), plan |-> ExtractPlan(payload),
                 expires |-> exp.expires, mfa |-> ExtractMfa(payload)]]

(***************************************************************************)
(* Specification of the normalizer alone: Init draws an encoded input,     *)
(* CallParseCookies applies parse_cookies to it                            *)
(***************************************************************************)
NoCall == [fn |-> "none", enc |-> "none", pairs |-> <<>>,
           content |-> TextContent(<<>>), ftype |-> "txt"]

NoRet == [state |-> "pending", raised |-> FALSE, cookies |-> EmptyDict, jar |-> EmptyDict]

InitNormalize ==
  /\ variant = "working"
  /\ jobs = <<>>
  /\ replies = <<>>
  /\ \E enc \in Encodings, pairs \in PairLists, ftype \in FileTypes :
       call = [fn |-> "parse_cookies", enc |-> enc, pairs |-> pairs,
               content |-> Encode(enc, pairs), ftype |-> ftype]
  /\ ret = NoRet

CallParseCookies ==
  /\ call.fn = "parse_cookies"
  /\ ret.state = "pending"
  /\ LET r == parse_cookies(call.content, call.ftype)
     IN ret' = [state |-> "returned", raised |-> r.raised, cookies |-> r.cookies,
                jar |-> EmptyDict]
  /\ UNCHANGED <<variant, jobs, replies, call>>

NextNormalize == CallParseCookies

SpecNormalize == InitNormalize /\ [][NextNormalize]_vars

\* C10: for each of the three encodings, normalize of a valid input holds
\* exactly the name/value pairs of the source, the last occurrence winning.
C10_NormalizeExact ==
  (ret.state = "returned" /\ call.enc \in Encodings /\ Len(call.pairs) >= 1)
    => (~ret.raised /\ ret.cookies = LastWins(call.pairs, EmptyDict))

(***************************************************************************)
(* Specification of the semicolon form: Init draws fragments separated by  *)
(* ';': key=value pairs with or without blanks around the name, and        *)
(* fragments without '='                                                   *)
(***************************************************************************)
Blanks == {<<>>, <<"SP">>}

PairFragments ==
  {[text |-> lead \o n \o mid \o <<"=">> \o v, name |-> lead \o n \o mid, value |-> v] :
     lead \in Blanks, n \in Names, mid \in Blanks, v \in Values}

BareFragments ==
  {[text |-> t, name |-> None, value |-> None] : t \in {<<>>, <<"SP">>, <<"x">>}}

FragmentLists ==
  UNION {[1..n -> PairFragments \cup BareFragments] : n \in 1..(MaxPairs + 1)}

\* the pairs of the fragments that hold '=', each name trimmed
TrimmedPairs(frags) ==
  LET kept == SelectSeq(frags, LAMBDA f : f.name # None)
  IN [i \in 1..Len(kept) |-> <<Strip(kept[i].name), kept[i].value>>]

InitSemicolon ==
  /\ variant = "working"
  /\ jobs = <<>>
  /\ replies = <<>>
  /\ \E frags \in FragmentLists, ftype \in FileTypes :
       call = [fn |-> "parse_cookies", enc |-> "fragments", pairs |-> frags,
               content |-> TextContent(Join([i \in 1..Len(frags) |-> frags[i].text],
                                            <<";">>)),
               ftype |-> ftype]
  /\ ret = NoRet

NextSemicolon == CallParseCookies

SpecSemicolon == InitSemicolon /\ [][NextSemicolon]_vars

\* C14: in the semicolon form the fragments without '=' are skipped and every
\* other pair is kept under its name trimmed of surrounding whitespace.
C14_SemicolonTrimmed ==
  (ret.state = "returned" /\ call.enc = "fragments")
    => (~ret.raised /\ ret.cookies = LastWins(TrimmedPairs(call.pairs), EmptyDict))

\* the same with no blank between a name and its '=': the scenario
\* "auth_pkey=x; session=y" and its kin
SemicolonScenario ==
  (ret.state = "returned" /\ call.enc = "fragments"
     /\ \A i \in 1..Len(call.pairs) :
          call.pairs[i].name # None => Strip(call.pairs[i].name) = LStrip(call.pairs[i].name))
    => (~ret.raised /\ ret.cookies = LastWins(TrimmedPairs(call.pairs), EmptyDict))

(***************************************************************************)
(* Specification of the order of the three steps: Init draws the three     *)
(* encodings and JSON arrays of strings "k=v", whose text holds '='        *)
(***************************************************************************)
\* the text ["k=v", "k2=v2"] and the list json.loads makes of it
EncodeJsonStrings(pairs) ==
  LET item(i) == pairs[i][1] \o <<"=">> \o pairs[i][2]
      quoted(i) == <<"\"">> \o item(i) \o <<"\"">>
  IN [kind |-> "json",
      text |-> <<"[">> \o Join([i \in 1..Len(pairs) |-> quoted(i)], <<",", "SP">>)
                 \o <<"]">>,
      arr |-> [i \in 1..Len(pairs) |-> JsonString(item(i))]]

InitSteps ==
  /\ variant = "working"
  /\ jobs = <<>>
  /\ replies = <<>>
  /\ \E enc \in Encodings \cup {"strings"}, pairs \in PairLists, ftype \in FileTypes :
       call = [fn |-> "parse_cookies", enc |-> enc, pairs |-> pairs,
               content |-> IF enc = "strings" THEN EncodeJsonStrings(pairs)
                           ELSE Encode(enc, pairs),
               ftype |-> ftype]
  /\ ret = NoRet

NextSteps == CallParseCookies

SpecSteps == InitSteps /\ [][NextSteps]_vars

\* the JSON-array step produces no cookie: it is not tried, json.loads gives
\* no list, or the list holds no object with a name and a value
JsonStepEmpty(content, ftype) ==
  LET loaded == JsonLoads(content)
      tryJson == ftype = "json" \/ StartsWith(LStrip(content.text), <<"[">>)
  IN (tryJson /\ loaded.isList)
       => (~JsonComprehension(loaded.arr, EmptyDict).raised
           /\ JsonComprehension(loaded.arr, EmptyDict).cookies = EmptyDict)

\* the tab-separated step produces no cookie
TabStepEmpty(content) == NetscapeLoop(SplitLines(content.text), EmptyDict) = EmptyDict

\* C15: for a non-empty content on which the JSON-array step and the
\* tab-separated step produce no cookie, parse_cookies returns what the
\* key=value loop reads in the content.
C15_FallbackReached ==
  (ret.state = "returned" /\ call.fn = "parse_cookies"
     /\ Strip(call.content.text) # <<>>
     /\ JsonStepEmpty(call.content, call.ftype) /\ TabStepEmpty(call.content))
    => (~ret.raised /\ ret.cookies = PairLoop(Split(call.content.text, ";"), EmptyDict))

(***************************************************************************)
(* withoutretry1.py: parse_cookie_file and json_to_netscape_cookie.  A jar *)
(* maps <<domain, path, name>> to the cookie stored under that key.        *)
(***************************************************************************)
\* now = int(datetime.now(timezone.utc).timestamp()), the clock of the run
Now == <<"1", "7", "0", "0", "0", "0", "0", "0", "0", "0">>

IsDigits(s) ==
  s # <<>> /\ \A i \in 1..Len(s) :
    s[i] \in {"0", "1", "2", "3", "4", "5", "6", "7", "8", "9"}

RECURSIVE DigitsLess(_, _)
DigitsLess(a, b) ==
  IF a = <<>> THEN FALSE
  ELSE IF Digit(Head(a)) # Digit(Head(b)) THEN Digit(Head(a)) < Digit(Head(b))
  ELSE DigitsLess(Tail(a), Tail(b))

\* a < b on the integers two digit strings denote
NumLess(a, b) ==
  LET x == StripZeros(a)
      y == StripZeros(b)
  IN IF Len(x) # Len(y) THEN Len(x) < Len(y) ELSE DigitsLess(x, y)

TrueText == <<"T", "R", "U", "E">>

FalseText == <<"F", "A", "L", "S", "E">>

\* one line of parse_cookie_file: the jar after it, or the ValueError of
\* unpacking more than 7 parts, which no handler surrounds
CookieFileLine(raw, jar) ==
  LET line == Strip(raw)
      parts == Split(line, "TAB")
      key == <<parts[1], parts[3], parts[6]>>
      cookie == [value |-> parts[7], expires |-> parts[5],
                 secure |-> ([i \in 1..Len(parts[4]) |-> Upper(parts[4][i])] = TrueText)]
  IN IF line = <<>> \/ StartsWith(line, <<"#">>) THEN [raised |-> FALSE, jar |-> jar]
     ELSE IF Len(parts) < 7 THEN [raised |-> FALSE, jar |-> jar]
     ELSE IF Len(parts) > 7 THEN [raised |-> TRUE, jar |-> jar]
     ELSE IF ~IsDigits(parts[5]) THEN [raised |-> FALSE, jar |-> jar]
     ELSE IF NumLess(parts[5], Now) THEN [raised |-> FALSE, jar |-> jar]
     ELSE [raised |-> FALSE, jar |-> DictSet(jar, key, cookie)]

RECURSIVE CookieFileLoop(_, _)
CookieFileLoop(lines, jar) ==
  IF lines = <<>> THEN [raised |-> FALSE, jar |-> jar]
  ELSE LET r == CookieFileLine(Head(lines), jar)
       IN IF r.raised THEN r ELSE CookieFileLoop(Tail(lines), r.jar)

\* parse_cookie_file(file_content): the jar (empty for None), or raised
parse_cookie_file(text) == CookieFileLoop(SplitLines(text), EmptyDict)

\* js.get(k, default)
Get(fields, k, default) == IF k \in DOMAIN fields THEN fields[k] ELSE default

\* json_to_netscape_cookie(js): the line, None, or the AttributeError of
\* js.get on an element that is no dict
json_to_netscape_cookie(js) ==
  LET domain == Get(js.fields, "domain", <<>>)
      flag == IF StartsWith(domain, <<".">>) THEN TrueText ELSE FalseText
      path == Get(js.fields, "path", <<"/">>)
      secure == IF Get(js.fields, "secure", FALSE) THEN TrueText ELSE FalseText
      expiry == StripZeros(Get(js.fields, "expirationDate", <<"0">>))
      name == Get(js.fields, "name", <<>>)
      value == Get(js.fields, "value", <<>>)
  IN IF js.type # "object" THEN [raised |-> TRUE, line |-> None]
     ELSE IF name = <<>> \/ value = <<>> THEN [raised |-> FALSE, line |-> None]
     ELSE [raised |-> FALSE,
           line |-> Join(<<domain, flag, path, secure, expiry, name, value>>, <<"TAB">>)]

NetscapeHeader ==
  <<"#", "SP", "N", "e", "t", "s", "c", "a", "p", "e", "SP", "H", "T", "T", "P", "SP",
    "C", "o", "o", "k", "i", "e", "SP", "F", "i", "l", "e">>

\* process_one_file lines 216-219: the lines built from the loaded list
RECURSIVE JsonToLines(_, _)
JsonToLines(arr, lines) ==
  IF arr = <<>> THEN [raised |-> FALSE, lines |-> lines]
  ELSE LET ln == json_to_netscape_cookie(Head(arr))
       IN IF ln.raised THEN [raised |-> TRUE, lines |-> lines]
          ELSE IF ln.line # None THEN JsonToLines(Tail(arr), Append(lines, ln.line))
          ELSE JsonToLines(Tail(arr), lines)

\* process_one_file line 220: parse_cookie_file("\n".join(lines))
JarOfJson(arr) ==
  LET built == JsonToLines(arr, <<NetscapeHeader>>)
      parsed == parse_cookie_file(Join(built.lines, <<"NL">>))
  IN IF built.raised THEN [raised |-> TRUE, jar |-> EmptyDict] ELSE parsed

\* the name/value pairs a jar and a dict hold
JarPairs(jar) == {<<k[3], jar[k].value>> : k \in DOMAIN jar}

DictPairs(d) == {<<k, d[k]>> : k \in DOMAIN d}

(***************************************************************************)
(* Specification of the JSON round trip: Init draws a list of JSON cookie  *)
(* records, CallRoundTrip converts it to tab-separated lines and parses    *)
(* them back                                                               *)
(***************************************************************************)
Past == <<"1", "0", "0", "0">>

Future == <<"9", "9", "9", "9", "9", "9", "9", "9", "9", "9">>

\* a record with name and value, with or without domain and expirationDate
Record(n, v, dom, exp) ==
  JsonObject([k \in {"name", "value"}
                     \cup (IF dom = None THEN {} ELSE {"domain"})
                     \cup (IF exp = None THEN {} ELSE {"expirationDate"}) |->
    CASE k = "name" -> n [] k = "value" -> v [] k = "domain" -> dom
      [] k = "expirationDate" -> exp])

Records ==
  {Record(n, v, dom, exp) :
     n \in Names, v \in Values, dom \in {None, <<"d">>}, exp \in {None, Past, Future}}

RecordLists == UNION {[1..n -> Records] : n \in 0..MaxPairs}

InitRoundTrip ==
  /\ variant = "withoutretry1"
  /\ jobs = <<>>
  /\ replies = <<>>
  /\ \E records \in RecordLists :
       call = [fn |-> "round_trip", enc |-> "json", pairs |-> <<>>,
               content |-> JsonContent(records), ftype |-> "json"]
  /\ ret = NoRet

CallRoundTrip ==
  /\ call.fn = "round_trip"
  /\ ret.state = "pending"
  /\ LET r == JarOfJson(call.content.arr)
     IN ret' = [state |-> "returned", raised |-> r.raised, cookies |-> EmptyDict,
                jar |-> r.jar]
  /\ UNCHANGED <<variant, jobs, replies, call>>

NextRoundTrip == CallRoundTrip

SpecRoundTrip == InitRoundTrip /\ [][NextRoundTrip]_vars

\* C11: converting each JSON record to the tab-separated form and parsing the
\* lines back gives the name/value pairs parse_cookies gives on the JSON.
C11_RoundTrip ==
  (ret.state = "returned" /\ call.fn = "round_trip")
    => /\ ~ret.raised
       /\ JarPairs(ret.jar) = DictPairs(parse_cookies(call.content, call.ftype).cookies)

(***************************************************************************)
(* withoutretry1.py: format_expiry_date and check_cookie.  The answers of  *)
(* the two endpoints are kept as what check_cookie reads in them.          *)
(***************************************************************************)
\* int(s) for a field of two or four digits, as an Int
RECURSIVE FieldValue(_, _)
FieldValue(s, acc) ==
  IF s = <<>> THEN acc ELSE FieldValue(Tail(s), 10 * acc + Digit(Head(s)))

LeapYear(y) == (y % 4 = 0 /\ y % 100 # 0) \/ y % 400 = 0

DaysIn(y, m) ==
  IF m = 2 THEN (IF LeapYear(y) THEN 29 ELSE 28)
  ELSE IF m \in {4, 6, 9, 11} THEN 30 ELSE 31

\* datetime.strptime(iso, "%Y-%m-%dT%H:%M:%S.%fZ") or "...%SZ" on a string
\* whose fields have their full width: the date when it parses, None when
\* strptime raises ValueError
format_expiry_date(iso) ==
  LET y == SubSeq(iso, 1, 4)
      mo == SubSeq(iso, 6, 7)
      d == SubSeq(iso, 9, 10)
      h == SubSeq(iso, 12, 13)
      mi == SubSeq(iso, 15, 16)
      sec == SubSeq(iso, 18, 19)
      rest == SubSeq(iso, 20, Len(iso))
      frac == SubSeq(rest, 2, Len(rest) - 1)
      shaped ==
        /\ Len(iso) >= 20
        /\ IsDigits(y) /\ IsDigits(mo) /\ IsDigits(d)
        /\ IsDigits(h) /\ IsDigits(mi) /\ IsDigits(sec)
        /\ iso[5] = "-" /\ iso[8] = "-" /\ iso[11] = "T"
        /\ iso[14] = ":" /\ iso[17] = ":"
        /\ \/ rest = <<"Z">>
           \/ /\ Len(rest) >= 3 /\ Len(rest) <= 8
              /\ rest[1] = "." /\ rest[Len(rest)] = "Z" /\ IsDigits(frac)
      inRange ==
        /\ FieldValue(y, 0) >= 1
        /\ FieldValue(mo, 0) \in 1..12
        /\ FieldValue(d, 0) \in 1..DaysIn(FieldValue(y, 0), FieldValue(mo, 0))
        /\ FieldValue(h, 0) <= 23 /\ FieldValue(mi, 0) <= 59 /\ FieldValue(sec, 0) <= 61
  IN IF shaped /\ inRange THEN d \o <<"-">> \o mo \o <<"-">> \o y ELSE None

PaidPlans ==
  {<<"p", "r", "o">>, <<"p", "l", "u", "s">>, <<"t", "e", "a", "m">>, <<"e", "n", "t", "e", "r", "p", "r", "i", "s", "e">>}

FreePlan == <<"f", "r", "e", "e">>

\* what the session endpoint answers: its status, and whether the JSON
\* carries accessToken and account.id
SessionAnswer(st, token, acct) == [status |-> st, accessToken |-> token, account |-> acct]

\* the JSON object of the subscriptions endpoint; None for an absent key;
\* is_delinquent is "true", "false", "null" or "absent"
Subscription(plan, delin, until, period, currency) ==
  [plan_type |-> plan, is_delinquent |-> delin, active_until |-> until,
   billing_period |-> period, billing_currency |-> currency]

NoSubscription == Subscription(None, "absent", None, None, None)

\* the answers of one check: whether a request raises, the session answer,
\* the status and the body of the subscriptions answer
CheckAnswer(raises, session, st2, sd) ==
  [raises |-> raises, session |-> session, status2 |-> st2, sd |-> sd]

NoDetails ==
  [error |-> "", plan |-> None, billing_period |-> None, billing_currency |-> None,
   expiry_date |-> None, recorded |-> FALSE]

Result(status, details) == [status |-> status, details |-> details]

Failed(error) == Result("failed", [NoDetails EXCEPT !.error = error])

\* faulty variant of check_cookie: an unresolved expiry date is a failure
check_cookie_strict(answer) ==
  LET sd == answer.sd
      plan == IF sd.plan_type = None THEN FreePlan ELSE sd.plan_type
      delin == sd.is_delinquent \in {"true", "absent"}
      until == sd.active_until
      exp == IF until # None /\ until # <<>> THEN format_expiry_date(until) ELSE None
      details == [NoDetails EXCEPT !.plan = plan, !.billing_period = sd.billing_period,
                                   !.billing_currency = sd.billing_currency,
                                   !.expiry_date = exp, !.recorded = TRUE]
  IN IF answer.raises THEN Failed("exception")
     ELSE IF answer.session.status = 403 THEN Failed("403 Forbidden")
     ELSE IF ~answer.session.accessToken THEN Failed("no accessToken")
     ELSE IF ~answer.session.account THEN Failed("no account_id")
     ELSE IF answer.status2 # 200 THEN Failed("subs HTTP")
     ELSE IF plan \in PaidPlans /\ ~delin /\ exp # None THEN Result("success", details)
     ELSE IF plan = FreePlan THEN Result("custom", details)
     ELSE Result("failed", details)

\* check_cookie(jar) on the answers of the two endpoints
check_cookie(answer) ==
  LET sd == answer.sd
      plan == IF sd.plan_type = None THEN FreePlan ELSE sd.plan_type
      delin == sd.is_delinquent \in {"true", "absent"}
      until == sd.active_until
      exp == IF until # None /\ until # <<>> THEN format_expiry_date(until) ELSE None
      details == [NoDetails EXCEPT !.plan = plan, !.billing_period = sd.billing_period,
                                   !.billing_currency = sd.billing_currency,
                                   !.expiry_date = exp, !.recorded = TRUE]
  IN IF answer.raises THEN Failed("exception")
     ELSE IF answer.session.status = 403 THEN Failed("403 Forbidden")
     ELSE IF ~answer.session.accessToken THEN Failed("no accessToken")
     ELSE IF ~answer.session.account THEN Failed("no account_id")
     ELSE IF answer.status2 # 200 THEN Failed("subs HTTP")
     ELSE IF plan \in PaidPlans /\ ~delin /\ exp # None THEN Result("success", details)
     ELSE IF plan = FreePlan \/ exp = None THEN Result("custom", details)
     ELSE Result("failed", details)

(***************************************************************************)
(* Inputs of the dispatch: the uploaded files and the answers of the       *)
(* remote target                                                           *)
(***************************************************************************)
OnePair == << <<(<<"a">>), (<<"x">>)>> >>

JobContents ==
  {TextContent(<<>>), TextContent(<<"x">>),
   EncodeSemicolon(OnePair), EncodeNetscape(OnePair), EncodeJson(OnePair),
   JsonContent(<<>>), JsonContent(<<JsonNumber>>)}

\* an entry of the upload: a .txt or .json file, or one that is skipped
\* (__MACOSX/, ._name, another extension)
Entries ==
  [kind : FileTypes, content : JobContents]
    \cup {[kind |-> "skip", content |-> TextContent(<<>>)]}

\* the upload of one file: every content, every kind
SingleUploads == UNION {[1..n -> Entries] : n \in 0..1}

\* the entries of a batch: an empty file, a key=value file, a JSON array
\* of cookie objects, a JSON array holding a number, a skipped entry
BatchEntries ==
  {[kind |-> "txt", content |-> TextContent(<<>>)],
   [kind |-> "txt", content |-> EncodeSemicolon(OnePair)],
   [kind |-> "json", content |-> EncodeJson(OnePair)],
   [kind |-> "json", content |-> JsonContent(<<JsonNumber>>)],
   [kind |-> "skip", content |-> TextContent(<<>>)]}

BatchUploads == UNION {[1..n -> BatchEntries] : n \in 0..MaxFiles}

UploadExts == {"txt", "json", "zip", "other"}

In == Marker("authStatus", LoggedIn)

Out == Marker("authStatus", LoggedOut)

ProbeResponses ==
  {Response(200, Html(FALSE, "single", <<>>, None)),
   Response(200, Html(TRUE, "single", <<>>, None)),
   Response(200, Html(TRUE, "single", <<Out>>, None)),
   Response(200, Html(TRUE, "single", <<In>>, None)),
   Response(200, Html(TRUE, "double", <<In>>, None)),
   Response(200, Html(TRUE, "bad", <<In>>, None)),
   Response(200, Html(TRUE, "single", <<Out, In>>, None)),
   Response(200, Html(TRUE, "single",
      <<In, Marker("email", <<"u", "@", "x">>), Marker("planType", <<"p", "l", "u", "s">>),
        Marker("subscriptionExpiresAt", <<"1", "7", "0", "0", "0", "0", "0", "0", "0", "0">>),
        Marker("mfa", <<"t", "r", "u", "e">>)>>, None)),
   Response(200, Html(TRUE, "single",
      <<In, Marker("email", <<"u">>), Marker("name", <<"n">>),
        Marker("subscriptionPlan", <<"f", "r", "e", "e">>)>>,
      <<"2", "5", "3", "4", "0", "2", "3", "0", "0", "7", "9", "9">>)),
   Response(200, Html(TRUE, "single",
      <<In, Marker("subscriptionExpiresAt",
                   <<"2", "5", "3", "4", "0", "2", "3", "0", "0", "8", "0", "0">>)>>, None)),
   Response(200, Html(TRUE, "single",
      <<In, Marker("subscriptionExpiresAt",
                   <<"9", "9", "9", "9", "9", "9", "9", "9", "9", "9", "9", "9", "9">>)>>,
      None)),
   Response(403, Html(FALSE, "single", <<>>, None)),
   Response(403, Html(TRUE, "single", <<In>>, None))}

\* the answers drawn for the jobs of a batch
BatchResponses ==
  {Response(200, Html(FALSE, "single", <<>>, None)),
   Response(200, Html(TRUE, "single", <<In>>, None)),
   Response(200, Html(TRUE, "single",
      <<In, Marker("subscriptionExpiresAt",
                   <<"2", "5", "3", "4", "0", "2", "3", "0", "0", "8", "0", "0">>)>>, None)),
   Response(403, Html(TRUE, "single", <<In>>, None))}

(***************************************************************************)
(* A job: one process_file task                                            *)
(***************************************************************************)
NoResponse == Response(0, Html(FALSE, "single", <<>>, None))

\* the scope of the cookies a session holds: none yet, the one of
\* create_cookie(..., domain="chatgpt.com", path="/", secure=True), the
\* one scraper.cookies.update(cookies) gives
NoScope == [domain |-> "", path |-> "", secure |-> FALSE]

InjectedScope == [domain |-> "chatgpt.com", path |-> "/", secure |-> TRUE]

UpdateScope == [domain |-> "", path |-> "/", secure |-> FALSE]

NewJob(content, ftype) ==
  [content |-> content, ftype |-> ftype, pc |-> "start",
   cookies |-> EmptyDict,
   session |-> [built |-> FALSE, cookies |-> EmptyDict, scope |-> NoScope],
   requests |-> <<>>,
   resp |-> NoResponse, searched |-> FALSE, js_payload |-> <<>>,
   valid |-> FALSE, extracted |-> FALSE, attrs |-> NoAttrs,
   outbox |-> <<>>, raisedAt |-> "none", escaped |-> "none"]

Message(to, kind, attrs, file) ==
  [to |-> to, kind |-> kind, attrs |-> attrs, file |-> file]

NoFile == TextContent(<<>>)

\* a request of the session: the cookies the session holds when it is sent
Request(kind, session) == [kind |-> kind, cookies |-> session.cookies]

Update(j, f) == jobs' = [jobs EXCEPT ![j] = f]

\* the exception leaves process_file: the task ends with it
Escapes(job, stage) ==
  [job EXCEPT !.pc = "crashed", !.raisedAt = stage, !.escaped = stage]

Stable == UNCHANGED <<variant, replies, call, ret>>

(***************************************************************************)
(* handle_document: the membership gate, the files of the upload, one      *)
(* task per cookie file                                                    *)
(***************************************************************************)
CookieFiles(ext, entries) ==
  IF ext \in FileTypes
  THEN <<[kind |-> ext, content |-> entries[1].content]>>
  ELSE SelectSeq(entries, LAMBDA e : e.kind # "skip")

HandleDocument(uploads) ==
  /\ call.fn = "none"
  /\ jobs = <<>>
  /\ replies = <<>>
  /\ \E member \in BOOLEAN, ext \in UploadExts, entries \in uploads :
       /\ ext \in FileTypes => Len(entries) = 1
       /\ ext = "other" => entries = <<>>
       /\ LET files == CookieFiles(ext, entries)
          IN IF ~member
             THEN replies' = <<"join_channel">> /\ UNCHANGED jobs
             ELSE IF ext = "other"
             THEN replies' = <<"unsupported_type">> /\ UNCHANGED jobs
             ELSE IF files = <<>>
             THEN replies' = <<"no_cookie_files">> /\ UNCHANGED jobs
             ELSE /\ jobs' = [i \in 1..Len(files) |->
                                NewJob(files[i].content, files[i].kind)]
                  /\ UNCHANGED replies
  /\ UNCHANGED <<variant, call, ret>>

(***************************************************************************)
(* process_file, one action per stretch between two awaits                 *)
(***************************************************************************)
\* faulty variant of Start: working.py loads the cookies into the session
\* before the warm-up request
StartCookiesFirst(j) ==
  /\ j \in DOMAIN jobs
  /\ jobs[j].pc = "start"
  /\ LET job == jobs[j]
         r == parse_cookies(job.content, job.ftype)
         loaded == [built |-> TRUE, cookies |-> r.cookies, scope |-> UpdateScope]
     IN IF r.raised THEN Update(j, Escapes(job, "parse_cookies"))
        ELSE IF r.cookies = EmptyDict
        THEN Update(j, [job EXCEPT !.pc = "send_format"])
        ELSE IF variant = "working"
        THEN Update(j, [job EXCEPT !.pc = "warmup", !.cookies = r.cookies,
                                   !.session = loaded,
                                   !.requests = <<Request("warmup", loaded)>>])
        ELSE Update(j, [job EXCEPT !.pc = "probe", !.cookies = r.cookies,
                                   !.session = loaded,
                                   !.requests = <<Request("probe", loaded)>>])
  /\ Stable

\* parse_cookies, the format check, the session, the first request
Start(j) ==
  /\ j \in DOMAIN jobs
  /\ jobs[j].pc = "start"
  /\ LET job == jobs[j]
         r == parse_cookies(job.content, job.ftype)
         empty == [built |-> TRUE, cookies |-> EmptyDict, scope |-> NoScope]
         loaded == [built |-> TRUE, cookies |-> r.cookies, scope |-> UpdateScope]
     IN IF r.raised THEN Update(j, Escapes(job, "parse_cookies"))
        ELSE IF r.cookies = EmptyDict
        THEN Update(j, [job EXCEPT !.pc = "send_format"])
        ELSE IF variant = "working"
        THEN Update(j, [job EXCEPT !.pc = "warmup", !.cookies = r.cookies,
                                   !.session = empty,
                                   !.requests = <<Request("warmup", empty)>>])
        ELSE Update(j, [job EXCEPT !.pc = "probe", !.cookies = r.cookies,
                                   !.session = loaded,
                                   !.requests = <<Request("probe", loaded)>>])
  /\ Stable

\* working.py: the warm-up GET returns, the cookies are injected, the probe
\* GET is sent
WarmUpReturns(j) ==
  /\ j \in DOMAIN jobs
  /\ jobs[j].pc = "warmup"
  /\ LET job == jobs[j]
         injected == [built |-> TRUE, cookies |-> job.cookies, scope |-> InjectedScope]
     IN Update(j, [job EXCEPT !.pc = "probe", !.session = injected,
                              !.requests = @ \o <<Request("probe", injected)>>])
  /\ Stable

\* working.py lines 239-254 and 270-300 on the probe's response
ProbeWorking(job, resp) ==
  LET payload == JsPayloadWorking(resp.html)
      valid == IsValid(payload)
      info == ExtractAccountInfo(payload, resp.html)
      seen == [job EXCEPT !.resp = resp, !.searched = TRUE,
                          !.js_payload = payload, !.valid = valid]
  IN IF ~valid THEN [seen EXCEPT !.pc = "send_invalid"]
     ELSE IF info.raised THEN Escapes([seen EXCEPT !.extracted = TRUE], "extract")
     ELSE [seen EXCEPT !.pc = "send_user", !.extracted = TRUE, !.attrs = info.attrs]

\* bot.py lines 183-201 and 213 on the probe's response
ProbeBot(job, resp) ==
  LET payload == JsPayloadBot(resp.html)
      valid == IsValid(payload)
      seen == [job EXCEPT !.resp = resp, !.searched = TRUE,
                          !.js_payload = payload, !.valid = valid]
  IN IF valid THEN [seen EXCEPT !.pc = "send_user"]
     ELSE [seen EXCEPT !.pc = "send_invalid"]

ProbeReturns(j, responses) ==
  /\ j \in DOMAIN jobs
  /\ jobs[j].pc = "probe"
  /\ \E resp \in responses :
       Update(j, IF variant = "working" THEN ProbeWorking(jobs[j], resp)
                 ELSE ProbeBot(jobs[j], resp))
  /\ Stable

\* scraper.get raises: working.py reports the error, bot.py logs it and
\* goes on with valid = False
GetRaises(j) ==
  /\ j \in DOMAIN jobs
  /\ jobs[j].pc \in {"warmup", "probe"}
  /\ Update(j, IF variant = "working"
               THEN [jobs[j] EXCEPT !.pc = "send_fetch_error", !.raisedAt = "fetch"]
               ELSE [jobs[j] EXCEPT !.pc = "send_invalid", !.raisedAt = "fetch"])
  /\ Stable

\* the target never answers: scraper.get is called without a timeout, the
\* await never completes
GetNeverAnswers(j) ==
  /\ j \in DOMAIN jobs
  /\ jobs[j].pc \in {"warmup", "probe"}
  /\ Update(j, [jobs[j] EXCEPT !.pc = "blocked"])
  /\ Stable

MessageKind(pc) ==
  CASE pc = "send_format" -> "format_error"
    [] pc = "send_fetch_error" -> "fetch_error"
    [] pc = "send_invalid" -> "invalid"

\* faulty variant of SendMessageOk: the report is copied to the operator
SendMessageCopiedToOperator(j) ==
  /\ j \in DOMAIN jobs
  /\ jobs[j].pc \in {"send_format", "send_fetch_error", "send_invalid"}
  /\ Update(j, [jobs[j] EXCEPT
        !.pc = "done",
        !.outbox = @ \o <<Message("requester", MessageKind(jobs[j].pc), NoAttrs, NoFile),
                          Message("operator", MessageKind(jobs[j].pc), NoAttrs, NoFile)>>])
  /\ Stable

\* context.bot.send_message(chat_id, ...) returns
SendMessageOk(j) ==
  /\ j \in DOMAIN jobs
  /\ jobs[j].pc \in {"send_format", "send_fetch_error", "send_invalid"}
  /\ Update(j, [jobs[j] EXCEPT
        !.pc = "done",
        !.outbox = @ \o <<Message("requester", MessageKind(jobs[j].pc), NoAttrs, NoFile)>>])
  /\ Stable

\* context.bot.send_document(chat_id, ...) returns
SendUserOk(j) ==
  /\ j \in DOMAIN jobs
  /\ jobs[j].pc = "send_user"
  /\ Update(j, [jobs[j] EXCEPT
        !.pc = "send_owner",
        !.outbox = @ \o <<Message("requester", "document", jobs[j].attrs, jobs[j].content)>>])
  /\ Stable

\* context.bot.send_document(OWNER_CHAT_ID, ...) returns
SendOwnerOk(j) ==
  /\ j \in DOMAIN jobs
  /\ jobs[j].pc = "send_owner"
  /\ Update(j, [jobs[j] EXCEPT
        !.pc = "done",
        !.outbox = @ \o <<Message("operator", "document", jobs[j].attrs, jobs[j].content)>>])
  /\ Stable

\* a send raises (no handler surrounds any of them)
SendRaises(j) ==
  /\ j \in DOMAIN jobs
  /\ jobs[j].pc \in {"send_format", "send_fetch_error", "send_invalid",
                     "send_user", "send_owner"}
  /\ Update(j, Escapes(jobs[j], "send"))
  /\ Stable

JobStep(j, responses) ==
  \/ Start(j)
  \/ WarmUpReturns(j)
  \/ ProbeReturns(j, responses)
  \/ GetRaises(j)
  \/ GetNeverAnswers(j)
  \/ SendMessageOk(j)
  \/ SendUserOk(j)
  \/ SendOwnerOk(j)
  \/ SendRaises(j)

Init ==
  /\ variant \in {"working", "bot"}
  /\ jobs = <<>>
  /\ replies = <<>>
  /\ call = NoCall
  /\ ret = NoRet

\* a batch of up to MaxFiles files, processed concurrently
Next ==
  \/ HandleDocument(BatchUploads)
  \/ \E j \in 1..MaxFiles : JobStep(j, BatchResponses)

Spec == Init /\ [][Next]_vars

\* the event loop runs every task that can take a step
SpecLive == Spec /\ \A j \in 1..MaxFiles : WF_vars(JobStep(j, BatchResponses))

\* one uploaded file, every content and every answer of the target
NextJob ==
  \/ HandleDocument(SingleUploads)
  \/ JobStep(1, ProbeResponses)

SpecJob == Init /\ [][NextJob]_vars

Terminal(job) == job.pc \in {"done", "crashed"}

(***************************************************************************)
(* withoutretry1.py: process_one_file, one action per stretch between two  *)
(* awaits, and the part of handle_document that starts it                  *)
(***************************************************************************)
\* content.decode("utf-8") raises on these bytes
BytesContent == [kind |-> "bytes", text |-> <<>>, arr |-> <<>>]

\* cookies_map[k] = v on a dict that keeps the order of insertion
RECURSIVE OrderedSet(_, _, _)
OrderedSet(items, k, v) ==
  IF items = <<>> THEN << <<k, v>> >>
  ELSE IF Head(items)[1] = k THEN << <<k, v>> >> \o Tail(items)
  ELSE <<Head(items)>> \o OrderedSet(Tail(items), k, v)

\* the loop over text.split(";") of the fallback
RECURSIVE CookiesMap(_, _)
CookiesMap(pairs, items) ==
  IF pairs = <<>> THEN items
  ELSE LET kv == Split1(Head(pairs), "=")
       IN IF Contains(Head(pairs), "=")
          THEN CookiesMap(Tail(pairs), OrderedSet(items, Strip(kv[1]), Strip(kv[2])))
          ELSE CookiesMap(Tail(pairs), items)

\* f".openai.com\tTRUE\t/\tFALSE\t0\t{name}\t{val}"
FallbackLine(name, val) ==
  Join(<<<<".", "o", "p", "e", "n", "a", "i", ".", "c", "o", "m">>, TrueText, <<"/">>, FalseText, <<"0">>,
         name, val>>, <<"TAB">>)

\* lines 226-237: the jar of the key=value pairs of the text
FallbackJar(text) ==
  LET items == CookiesMap(Split(text, ";"), <<>>)
      lines == <<NetscapeHeader>>
                 \o [i \in 1..Len(items) |-> FallbackLine(items[i][1], items[i][2])]
  IN IF items = <<>> THEN [raised |-> FALSE, jar |-> EmptyDict, tried |-> FALSE]
     ELSE [raised |-> parse_cookie_file(Join(lines, <<"NL">>)).raised,
           jar |-> parse_cookie_file(Join(lines, <<"NL">>)).jar,
           tried |-> TRUE]

\* lines 213-224: the jar of the JSON array (any exception gives None) or
\* of the tab-separated text (a ValueError of parse_cookie_file escapes)
FirstJar(content, ext) ==
  LET tryJson == ext = "json" \/ StartsWith(LStrip(content.text), <<"[">>)
      loaded == JsonLoads(content)
      ofJson == JarOfJson(loaded.arr)
  IN IF tryJson
     THEN IF loaded.isList /\ ~ofJson.raised
          THEN [raised |-> FALSE, jar |-> ofJson.jar]
          ELSE [raised |-> FALSE, jar |-> EmptyDict]
     ELSE parse_cookie_file(content.text)

\* lines 207-237: the jar process_one_file builds, whether the fallback
\* wrote lines, whether an exception escaped
BuildJar(content, ext) ==
  LET first == FirstJar(content, ext)
      second == FallbackJar(content.text)
  IN IF first.raised THEN [raised |-> TRUE, jar |-> EmptyDict, fallback |-> FALSE]
     ELSE IF first.jar # EmptyDict
     THEN [raised |-> FALSE, jar |-> first.jar, fallback |-> FALSE]
     ELSE [raised |-> second.raised, jar |-> second.jar, fallback |-> second.tried]

NoResult == Result("none", NoDetails)

NoAnswer == CheckAnswer(FALSE, SessionAnswer(0, FALSE, FALSE), 0, NoSubscription)

NoCaption ==
  [plan |-> None, expires |-> None, billing_period |-> None, billing_currency |-> None]

OneJob(content, ext) ==
  [content |-> content, ftype |-> ext, pc |-> "start",
   jar |-> EmptyDict, fallback |-> FALSE, checked |-> FALSE,
   answer |-> NoAnswer, res |-> NoResult, attrs |-> NoCaption,
   outbox |-> <<>>, raisedAt |-> "none", escaped |-> "none"]

\* handle_document of withoutretry1.py for a .txt or .json upload
OneHandleDocument(contents) ==
  /\ call.fn = "none"
  /\ jobs = <<>>
  /\ replies = <<>>
  /\ \E member \in BOOLEAN, ext \in {"txt", "json", "other"}, content \in contents :
       IF ~member THEN replies' = <<"join_channel">> /\ UNCHANGED jobs
       ELSE IF ext = "other" THEN replies' = <<"unsupported_type">> /\ UNCHANGED jobs
       ELSE jobs' = <<OneJob(content, ext)>> /\ UNCHANGED replies
  /\ UNCHANGED <<variant, call, ret>>

\* decoding, the jar, the format check, check_cookie handed to the executor
OneStart(j) ==
  /\ j \in DOMAIN jobs
  /\ jobs[j].pc = "start"
  /\ LET job == jobs[j]
         built == BuildJar(job.content, job.ftype)
     IN IF job.content.kind = "bytes"
        THEN Update(j, [job EXCEPT !.pc = "send_decode"])
        ELSE IF built.raised
        THEN Update(j, [Escapes(job, "parse_cookie_file") EXCEPT
                          !.fallback = built.fallback])
        ELSE IF built.jar = EmptyDict
        THEN Update(j, [job EXCEPT !.pc = "send_format", !.fallback = built.fallback])
        ELSE Update(j, [job EXCEPT !.pc = "check", !.jar = built.jar,
                                   !.fallback = built.fallback, !.checked = TRUE])
  /\ Stable


\* the answers of the two endpoints drawn for a check
IsoDates ==
  {<<"2", "0", "3", "0", "-", "0", "1", "-", "0", "2", "T", "0", "3", ":", "0", "4", ":", "0", "5", "Z">>,
   <<"2", "0", "3", "0", "-", "0", "1", "-", "0", "2", "T", "0", "3", ":", "0", "4", ":", "0", "5", ".", "0", "0", "0", "Z">>,
   <<"2", "0", "3", "0", "-", "0", "2", "-", "3", "0", "T", "0", "3", ":", "0", "4", ":", "0", "5", "Z">>,
   <<"2", "0", "3", "0", "-", "0", "1", "-", "0", "2">>}

Monthly == <<"m", "o", "n", "t", "h", "l", "y">>

Usd == <<"u", "s", "d">>

Subscriptions ==
  {Subscription(plan, delin, until, billing[1], billing[2]) :
     plan \in PaidPlans \cup {FreePlan, <<"g", "o">>, None},
     delin \in {"true", "false", "null", "absent"},
     until \in IsoDates \cup {None, <<>>},
     billing \in {<<None, None>>, <<Monthly, Usd>>}}

GoodSession == SessionAnswer(200, TRUE, TRUE)

CheckAnswers ==
  {CheckAnswer(FALSE, GoodSession, 200, sd) : sd \in Subscriptions}
    \cup {CheckAnswer(TRUE, GoodSession, 200, NoSubscription),
          CheckAnswer(FALSE, SessionAnswer(403, FALSE, FALSE), 200, NoSubscription),
          CheckAnswer(FALSE, SessionAnswer(200, FALSE, FALSE), 200, NoSubscription),
          CheckAnswer(FALSE, SessionAnswer(200, TRUE, FALSE), 200, NoSubscription),
          CheckAnswer(FALSE, GoodSession, 500, NoSubscription)}

\* the files drawn for process_one_file
FutureLine(name, value) ==
  Join(<<<<".", "d">>, TrueText, <<"/">>, FalseText, Future, name, value>>, <<"TAB">>)

OneContents ==
  {TextContent(<<>>), TextContent(<<"x">>), BytesContent,
   TextContent(FutureLine(<<"a">>, <<"x">>)),
   TextContent(FutureLine(<<"a">>, <<"x", "TAB", "y">>)),
   EncodeNetscape(OnePair),
   EncodeSemicolon(OnePair),
   EncodeSemicolon(<< <<(<<"a">>), (<<"x">>)>>, <<(<<"b">>), (<<"y">>)>> >>),
   TextContent(<<"a", "=", "x", "TAB", "y">>),
   TextContent(<<"x", "NL">> \o
               Join(<<<<".", "d">>, <<"T">>, <<"/">>, <<"F">>, Future, <<"n", "=", "v">>>>,
                    <<"TAB">>)),
   EncodeJson(OnePair),
   JsonContent(<<Record(<<"a">>, <<"x">>, <<".", "d">>, Future)>>),
   JsonContent(<<JsonNumber>>)}

\* check_cookie returns in the executor (its requests carry timeout=10)
CheckReturns(j, answers) ==
  /\ j \in DOMAIN jobs
  /\ jobs[j].pc = "check"
  /\ \E answer \in answers :
       Update(j, [jobs[j] EXCEPT !.pc = "get_me", !.answer = answer,
                                 !.res = check_cookie(answer)])
  /\ Stable

FreeFlagged == <<"F", "r", "e", "e", "SP", "WARN">>

\* lines 253-281: the plan and the billing fields of the two captions
CaptionOf(res) ==
  LET d == res.details
      raw_plan == IF res.status = "success" THEN d.plan ELSE FreePlan
      period == IF res.status = "success" THEN d.billing_period ELSE None
      currency == IF res.status = "success" THEN d.billing_currency ELSE None
  IN [plan |-> IF [i \in 1..Len(raw_plan) |-> Lower(raw_plan[i])] = FreePlan
               THEN FreeFlagged ELSE Capitalize(raw_plan),
      expires |-> d.expiry_date,
      billing_period |-> IF period = None THEN None ELSE Capitalize(period),
      billing_currency |-> IF currency = None THEN None
                           ELSE [i \in 1..Len(currency) |-> Upper(currency[i])]]

\* context.bot.get_me() returns, the status of the result is looked at
GetMeReturns(j) ==
  /\ j \in DOMAIN jobs
  /\ jobs[j].pc = "get_me"
  /\ Update(j, IF jobs[j].res.status \in {"success", "custom"}
               THEN [jobs[j] EXCEPT !.pc = "send_user", !.attrs = CaptionOf(jobs[j].res)]
               ELSE [jobs[j] EXCEPT !.pc = "send_invalid"])
  /\ Stable

\* context.bot.get_me() raises
GetMeRaises(j) ==
  /\ j \in DOMAIN jobs
  /\ jobs[j].pc = "get_me"
  /\ Update(j, Escapes(jobs[j], "get_me"))
  /\ Stable

OneMessageKind(pc) ==
  CASE pc = "send_decode" -> "decode_error"
    [] pc = "send_format" -> "format_error"
    [] pc = "send_invalid" -> "invalid"

\* context.bot.send_message(chat_id, ...) returns
OneSendMessageOk(j) ==
  /\ j \in DOMAIN jobs
  /\ jobs[j].pc \in {"send_decode", "send_format", "send_invalid"}
  /\ Update(j, [jobs[j] EXCEPT
        !.pc = "done",
        !.outbox = @ \o <<Message("requester", OneMessageKind(jobs[j].pc),
                                  NoCaption, NoFile)>>])
  /\ Stable

\* context.bot.send_document(chat_id, ...) returns
OneSendUserOk(j) ==
  /\ j \in DOMAIN jobs
  /\ jobs[j].pc = "send_user"
  /\ Update(j, [jobs[j] EXCEPT
        !.pc = "send_owner",
        !.outbox = @ \o <<Message("requester", "document", jobs[j].attrs, jobs[j].content)>>])
  /\ Stable

\* context.bot.send_document(OWNER_CHAT_ID, ...) returns
OneSendOwnerOk(j) ==
  /\ j \in DOMAIN jobs
  /\ jobs[j].pc = "send_owner"
  /\ Update(j, [jobs[j] EXCEPT
        !.pc = "done",
        !.outbox = @ \o <<Message("operator", "document", jobs[j].attrs, jobs[j].content)>>])
  /\ Stable

\* a send raises (no handler surrounds any of them)
OneSendRaises(j) ==
  /\ j \in DOMAIN jobs
  /\ jobs[j].pc \in {"send_decode", "send_format", "send_invalid", "send_user", "send_owner"}
  /\ Update(j, Escapes(jobs[j], "send"))
  /\ Stable

InitOne ==
  /\ variant = "withoutretry1"
  /\ jobs = <<>>
  /\ replies = <<>>
  /\ call = NoCall
  /\ ret = NoRet

NextOne ==
  \/ OneHandleDocument(OneContents)
  \/ OneStart(1)
  \/ CheckReturns(1, CheckAnswers)
  \/ GetMeReturns(1)
  \/ GetMeRaises(1)
  \/ OneSendMessageOk(1)
  \/ OneSendUserOk(1)
  \/ OneSendOwnerOk(1)
  \/ OneSendRaises(1)

SpecOne == InitOne /\ [][NextOne]_vars

(***************************************************************************)
(* Vocabulary of the claims                                                *)
(***************************************************************************)
Delivered(job, to, kind) ==
  \E i \in 1..Len(job.outbox) : job.outbox[i].to = to /\ job.outbox[i].kind = kind

VerdictDelivered(job) ==
  Delivered(job, "requester", "document") \/ Delivered(job, "requester", "invalid")

ErrorReported(job) ==
  Delivered(job, "requester", "format_error") \/ Delivered(job, "requester", "fetch_error")

\* parse_cookies found no cookie
FormatError(job) ==
  job.pc # "start" /\ job.cookies = EmptyDict /\ job.raisedAt # "parse_cookies"

\* a content none of the three encodings recognises: no JSON object with a
\* name and a value, no line of 7 tab-separated fields, no key=value pair
Unrecognisable(content) ==
  IF content.kind = "json"
  THEN \A i \in 1..Len(content.arr) :
         ~(content.arr[i].type = "object"
           /\ {"name", "value"} \subseteq DOMAIN content.arr[i].fields)
  ELSE /\ ~Contains(content.text, "=")
       /\ \A i \in 1..Len(SplitLines(content.text)) :
            Len(Split(SplitLines(content.text)[i], "TAB")) < 7

\* C1: every job that has ended has exactly one terminal outcome, a verdict
\* delivered to the requester or an error reported to the requester.
C1_ExactlyOneOutcome ==
  \A j \in DOMAIN jobs :
    Terminal(jobs[j]) => (VerdictDelivered(jobs[j]) # ErrorReported(jobs[j]))

\* C2: a Valid job that has ended has made both the requester and the
\* operator delivery, or neither.
C2_DeliveriesAtomic ==
  \A j \in DOMAIN jobs :
    (Terminal(jobs[j]) /\ jobs[j].valid)
      => (Delivered(jobs[j], "requester", "document")
            <=> Delivered(jobs[j], "operator", "document"))

\* a job that failed (format error, network error, unexpected exception)
\* has, once ended, a report to its own requester and nothing for the
\* operator; a job whose own steps all succeeded on a Valid verdict has made
\* both deliveries; and a step of one job leaves every sibling as it was.
C3_FailureReported ==
  \A j \in DOMAIN jobs :
    LET job == jobs[j] IN
    /\ (Terminal(job) /\ job.escaped # "send"
          /\ (FormatError(job) \/ job.raisedAt \in {"fetch", "parse_cookies", "extract"}))
         => /\ ErrorReported(job) \/ Delivered(job, "requester", "invalid")
            /\ ~Delivered(job, "operator", "document")
    /\ (job.pc = "done" /\ job.valid)
         => /\ Delivered(job, "requester", "document")
            /\ Delivered(job, "operator", "document")

C3_SiblingsUntouched ==
  jobs # <<>> =>
    /\ DOMAIN jobs' = DOMAIN jobs
    /\ \A j \in DOMAIN jobs, k \in DOMAIN jobs :
         (jobs'[j] # jobs[j] /\ k # j) => jobs'[k] = jobs[k]

\* C3: failures are isolated per job: in every state each failed job has its
\* own report and each successful one both deliveries, and no step of one
\* job changes a sibling.
C3_FailuresIsolated == [](C3_FailureReported) /\ [][C3_SiblingsUntouched]_vars

\* C4: a decoded payload that holds the logged_out marker gives Invalid.
C4_LoggedOutDominates ==
  \A j \in DOMAIN jobs :
    (jobs[j].searched /\ HasAuthStatus(jobs[j].js_payload, LoggedOut))
      => ~jobs[j].valid

\* C5: on a 403 probe response the job is Invalid, and neither the enqueue
\* literal is searched nor any attribute extracted.
C5_ForbiddenIsInvalid ==
  \A j \in DOMAIN jobs :
    jobs[j].resp.status = 403
      => (~jobs[j].valid /\ ~jobs[j].searched /\ ~jobs[j].extracted)

\* C6: under fair scheduling every started job eventually ends.
C6_EveryJobTerminates ==
  \A j \in 1..MaxFiles :
    (j \in DOMAIN jobs) ~> (j \in DOMAIN jobs /\ Terminal(jobs[j]))

\* C7: no exception leaves a job's task, and a job in which an unexpected
\* error was raised ends with a failure message to the requester.
C7_CaughtAtBoundary ==
  \A j \in DOMAIN jobs :
    /\ jobs[j].escaped = "none"
    /\ (Terminal(jobs[j]) /\ jobs[j].raisedAt \in {"parse_cookies", "extract", "send"})
         => ErrorReported(jobs[j])

\* C8: the verdict and attribute resolution never raises, whatever markers
\* the response body carries.
C8_ResolveTotal ==
  \A j \in DOMAIN jobs : jobs[j].searched => jobs[j].raisedAt # "extract"

\* C9: for a content no encoding recognises, parse_cookies does not raise and
\* the job goes to the format-error report: no session built, no request sent,
\* and once done the format error is the one message of the job.
C9_FormatErrorStops ==
  \A j \in DOMAIN jobs :
    (jobs[j].pc # "start" /\ Unrecognisable(jobs[j].content))
      => /\ jobs[j].raisedAt # "parse_cookies"
         /\ jobs[j].pc \in {"send_format", "done", "crashed"}
         /\ ~jobs[j].session.built
         /\ jobs[j].requests = <<>>
         /\ jobs[j].pc = "done"
              => jobs[j].outbox = <<Message("requester", "format_error", NoAttrs, NoFile)>>

\* a job whose verdict is not Valid: no cookie was found, the fetch raised,
\* or the probe's response does not carry the logged_in marker
NotValid(job) ==
  FormatError(job) \/ job.raisedAt = "fetch" \/ (job.searched /\ ~job.valid)

ToOperator(job) == SelectSeq(job.outbox, LAMBDA m : m.to = "operator")

\* C12: the operator receives nothing for a job whose verdict is not Valid:
\* such a job, once done, has sent exactly one report, to the requester; and
\* whatever the operator receives is the document of a job found Valid.
C12_OperatorOnlyOnValid ==
  \A j \in DOMAIN jobs :
    LET job == jobs[j] IN
    /\ NotValid(job) => ToOperator(job) = <<>>
    /\ (NotValid(job) /\ job.pc = "done")
         => /\ Len(job.outbox) = 1
            /\ job.outbox[1].to = "requester"
            /\ job.outbox[1].kind \in {"format_error", "fetch_error", "invalid"}
    /\ ToOperator(job) # <<>>
         => /\ job.valid
            /\ \A i \in 1..Len(job.outbox) : job.outbox[i].kind = "document"

\* each of the three endings that are not Valid has been reported
C12_Witness ==
  \E j \in DOMAIN jobs :
    /\ jobs[j].pc = "done"
    /\ jobs[j].raisedAt = "fetch"
    /\ NotValid(jobs[j])
    /\ Len(jobs[j].outbox) = 1

\* the probe's payload holds the logged_in marker and nothing else, and the
\* HTML around it holds no expiry
OnlyLoggedIn(job) ==
  job.searched /\ job.js_payload = <<In>> /\ job.resp.html.restExpiry = None

Documents(job) == SelectSeq(job.outbox, LAMBDA m : m.kind = "document")

\* C13: with logged_in as the only marker the verdict is Valid, the
\* extraction does not raise, and e-mail, plan, expiry and MFA are all "N/A"
\* in every summary delivered; a job that is done has delivered both.
C13_OnlyLoggedInAllUnknown ==
  \A j \in DOMAIN jobs :
    LET job == jobs[j] IN
    (variant = "working" /\ OnlyLoggedIn(job))
      => /\ job.valid
         /\ job.raisedAt # "extract"
         /\ \A i \in 1..Len(Documents(job)) :
              \A a \in {"email", "plan", "expires", "mfa"} :
                Documents(job)[i].attrs[a] = NA
         /\ job.pc = "done"
              => /\ Len(Documents(job)) = 2
                 /\ Documents(job)[1].to = "requester"
                 /\ Documents(job)[2].to = "operator"

C13_Witness ==
  \E j \in DOMAIN jobs :
    /\ variant = "working"
    /\ OnlyLoggedIn(jobs[j])
    /\ jobs[j].extracted
    /\ jobs[j].pc = "done"
    /\ Len(Documents(jobs[j])) = 2

Probes(job) == SelectSeq(job.requests, LAMBDA r : r.kind = "probe")

\* the warm-up request raised
WarmUpFailed(job) == job.raisedAt = "fetch" /\ Len(job.requests) = 1

C16_Order ==
  \A j \in DOMAIN jobs :
    LET job == jobs[j] IN
    variant = "working"
      => /\ \A i \in 1..Len(job.requests) :
              job.requests[i].kind = "warmup"
                => (i = 1 /\ job.requests[i].cookies = EmptyDict)
         /\ \A i \in 1..Len(job.requests) :
              job.requests[i].kind = "probe"
                => /\ i = 2
                   /\ job.requests[i].cookies = job.cookies
                   /\ job.cookies # EmptyDict
                   /\ job.session.cookies = job.cookies
                   /\ job.session.scope = InjectedScope
         /\ job.pc = "warmup"
              => (job.session.cookies = EmptyDict /\ Probes(job) = <<>>)
         /\ WarmUpFailed(job)
              => (job.session.cookies = EmptyDict /\ Probes(job) = <<>>)

\* the session's cookies change only in the step in which the warm-up
\* returns, and that step issues the probe
C16_InjectionStep ==
  \A j \in DOMAIN jobs :
    (variant = "working" /\ j \in DOMAIN jobs'
       /\ jobs'[j].session.cookies # jobs[j].session.cookies)
      => /\ jobs[j].pc = "warmup"
         /\ jobs'[j].pc = "probe"
         /\ jobs'[j].requests = jobs[j].requests \o <<Request("probe", jobs'[j].session)>>

\* C16: in working.py the warm-up request is made with no user cookie in the
\* session, the cookies are injected (domain chatgpt.com, path /, secure) only
\* once it has returned, the probe is issued only after the injection, and a
\* warm-up that fails leaves the session without cookies and sends no probe.
C16_WarmUpOrdering == [](C16_Order) /\ [][C16_InjectionStep]_vars

C16_Witness ==
  \E j \in DOMAIN jobs :
    /\ variant = "working"
    /\ Len(jobs[j].requests) = 2
    /\ jobs[j].requests[1].kind = "warmup"
    /\ jobs[j].requests[2].kind = "probe"
    /\ jobs[j].session.scope = InjectedScope

\* a warm-up that failed has been reported
WarmUpFailureReached ==
  \E j \in DOMAIN jobs :
    variant = "working" /\ WarmUpFailed(jobs[j]) /\ jobs[j].pc = "done"

\* the session was candidate-valid and the subscriptions endpoint answered
Consulted(job) ==
  /\ job.pc \notin {"start", "check"}
  /\ job.checked
  /\ ~job.answer.raises
  /\ job.answer.session = GoodSession
  /\ job.answer.status2 = 200

\* the active_until values that denote a date
ResolvableDates ==
  {<<"2", "0", "3", "0", "-", "0", "1", "-", "0", "2", "T", "0", "3", ":", "0", "4", ":", "0", "5", "Z">>,
   <<"2", "0", "3", "0", "-", "0", "1", "-", "0", "2", "T", "0", "3", ":", "0", "4", ":", "0", "5", ".", "0", "0", "0", "Z">>}

PaidInGoodStanding(sd) ==
  /\ sd.plan_type \in PaidPlans
  /\ sd.is_delinquent = "false"
  /\ sd.active_until \in ResolvableDates

FreeOrUnresolved(sd) ==
  sd.plan_type = FreePlan \/ sd.active_until \notin ResolvableDates

BothDelivered(job) ==
  /\ Len(job.outbox) = 2
  /\ job.outbox[1] = Message("requester", "document", job.attrs, job.content)
  /\ job.outbox[2] = Message("operator", "document", job.attrs, job.content)

\* C17: in withoutretry1.py, once the subscriptions endpoint has answered, a
\* paid plan that is not delinquent and has a resolvable expiry date gives
\* "success", a free plan or an unresolved expiry date gives "custom" (plan
\* shown as Free with a warning, billing period and currency cleared); in both
\* cases the invalid-cookie message is never sent and a job that is done has
\* delivered the document to the requester and to the operator.
C17_SubscriptionVerdict ==
  \A j \in DOMAIN jobs :
    LET job == jobs[j]
        sd == job.answer.sd
        decided == job.pc \in {"send_user", "send_owner", "done"}
    IN
    /\ (Consulted(job) /\ PaidInGoodStanding(sd))
         => /\ job.res.status = "success"
            /\ decided => /\ job.attrs.plan = Capitalize(sd.plan_type)
                           /\ job.attrs.expires = <<"0", "2", "-", "0", "1", "-",
                                                     "2", "0", "3", "0">>
    /\ (Consulted(job) /\ FreeOrUnresolved(sd))
         => /\ job.res.status = "custom"
            /\ decided => /\ job.attrs.plan = FreeFlagged
                           /\ job.attrs.billing_period = None
                           /\ job.attrs.billing_currency = None
    /\ (Consulted(job) /\ (PaidInGoodStanding(sd) \/ FreeOrUnresolved(sd)))
         => /\ job.pc \in {"get_me", "send_user", "send_owner", "done", "crashed"}
            /\ ~Delivered(job, "requester", "invalid")
            /\ job.pc = "done" => BothDelivered(job)

C17_Witness ==
  \E j \in DOMAIN jobs :
    /\ Consulted(jobs[j])
    /\ PaidInGoodStanding(jobs[j].answer.sd)
    /\ jobs[j].pc = "done"
    /\ BothDelivered(jobs[j])

\* a job with an unresolved expiry date has made both deliveries
FlaggedReached ==
  \E j \in DOMAIN jobs :
    /\ Consulted(jobs[j])
    /\ jobs[j].answer.sd.plan_type \in PaidPlans
    /\ jobs[j].answer.sd.active_until \notin ResolvableDates
    /\ jobs[j].pc = "done"
    /\ BothDelivered(jobs[j])

\* the job took the unsupported-format exit: no jar, check_cookie not
\* invoked, no exception out of parse_cookie_file, and the format message
\* is the one message of a job that is done
FormatExit(job) ==
  /\ job.jar = EmptyDict
  /\ ~job.checked
  /\ job.raisedAt # "parse_cookie_file"
  /\ job.pc \in {"send_format", "done", "crashed"}
  /\ job.pc = "done"
       => job.outbox = <<Message("requester", "format_error", NoCaption, NoFile)>>

\* C18: a job for which the key=value fallback wrote its lines (its content
\* is recognisable only in the semicolon form) always takes the
\* unsupported-format exit, and check_cookie is not invoked for it.
C18_FallbackAlwaysRejected ==
  \A j \in DOMAIN jobs : jobs[j].fallback => FormatExit(jobs[j])

\* no name and no value the fallback reads holds a tab or a line break
PlainPairs(text) ==
  LET items == CookiesMap(Split(text, ";"), <<>>)
  IN \A i \in 1..Len(items) : \A k \in 1..2 :
       ~Contains(items[i][k], "TAB") /\ ~Contains(items[i][k], "NL")

\* the same for the jobs whose names and values hold no tab and no line
\* break: the line of each pair has 7 fields and the expiry 0
PlainFallbackRejected ==
  \A j \in DOMAIN jobs :
    (jobs[j].fallback /\ PlainPairs(jobs[j].content.text)) => FormatExit(jobs[j])

PlainFallbackReached ==
  \E j \in DOMAIN jobs :
    /\ jobs[j].fallback
    /\ PlainPairs(jobs[j].content.text)
    /\ Len(CookiesMap(Split(jobs[j].content.text, ";"), <<>>)) = 2
    /\ jobs[j].pc = "done"
    /\ Delivered(jobs[j], "requester", "format_error")

\* check_cookie is invoked on a jar the fallback's lines gave
FallbackChecked == \E j \in DOMAIN jobs : jobs[j].fallback /\ jobs[j].checked

====
